---- MODULE Spec2Model ----
(***************************************************************************)
(* Model of the authentication gateway (authentication.ts, main.ts):       *)
(* the OIDC verifier, the passport session (de)serialisation and the       *)
(* /login, /logout and /oidc-callback routes.                              *)
(*                                                                         *)
(* Every `await` of the source is a suspension point and ends an action;   *)
(* the code between two suspension points runs atomically (one event-loop  *)
(* turn).  getRepository(User).save(user) is NOT awaited by the verifier,  *)
(* so the write is put in `writes` and lands in a later SaveUser step.     *)
(***************************************************************************)
EXTENDS Integers, Sequences, FiniteSets, TLC

\* ------------------------------------------------------------------ bounds
MaxLogins == 2      \* number of authorization requests started in a run
MaxRestarts == 1    \* number of process restarts in a run

\* ------------------------------------------------------------- value sets
Sessions == {"s1", "s2"}            \* browser sessions (cookie handles)
Subs == {"u1", "u2"}                \* provider subject identifiers
Emails == {"e1", "e2"}
None == "none"                      \* JS undefined for identifiers
\* the values of User.isAdmin: a JS boolean or undefined
True == "true"
False == "false"
Undefined == "undefined"

\* strings are sequences of one-character strings
Root == <<"/">>
HostA == <<"a">>
Targets ==
    { <<>>,                                                  \* ""
      <<"/", "p">>,                                          \* "/p"
      <<"p">>,                                               \* "p"  (path-relative)
      <<"/", "/", "b", "/", "p">>,                           \* "//b/p"
      <<"h", "t", "t", "p", ":", "/", "/", "a", "/", "p">>,  \* "http://a/p"
      <<"h", "t", "t", "p", ":", "/", "/", "b", "/", "p">>,  \* "http://b/p"
      <<"x", ":", "a">> }                                    \* "x:a"

\* req.query.state / req.query.redirectUrl: a string, absent, or a
\* non-string value (array or object produced by the query parser)
StrVal(t) == [kind |-> "string", chars |-> t]
AbsentVal == [kind |-> "undefined", chars |-> <<>>]
ArrayVal == [kind |-> "array", chars |-> <<>>]
\* the state the strategy generates itself: random(), base64url characters only
RandomState == StrVal(<<"r">>)
QueryValues == {StrVal(t) : t \in Targets} \cup {AbsentVal, ArrayVal, RandomState}

NoUser == [id |-> None, name |-> None, email |-> None,
           profileImage |-> None, isAdmin |-> Undefined]
NoProfile == [sub |-> None, name |-> None, email |-> None,
              email_verified |-> FALSE, picture |-> None]
\* userinfo responses: a profile without a picture and one with a picture
Profiles ==
    { [sub |-> u, name |-> v[1], email |-> e, email_verified |-> b, picture |-> v[2]] :
        u \in Subs, e \in Emails, b \in BOOLEAN, v \in {<<"n1", None>>, <<"n2", "pic">>} }

NoPending == [set |-> FALSE, state |-> AbsentVal]

VARIABLES
    adminSub,       \* --adminSub argument of the running process (None if not given)
    sites,          \* Site table: set of [domain, editors]
    users,          \* User table: set of User records
    writes,         \* saves issued by the verifier that have not reached the store yet
    failed,         \* saves the store rejected (unhandled promise rejections)
    pending,        \* per session: authorization request details kept by the strategy
    passportUser,   \* per session: the serialized user (session.passport.user)
    pc,             \* per session: position of the flow / of the request in flight
    qstate,         \* per session: req.query.state of the callback in flight
    profile,        \* per session: userinfo claims handed to the verifier
    reqUser,        \* per session: req.user of the callback in flight
    response,       \* per session: last response sent
    flow,           \* per session: number of the authorization request it carries
    logins,         \* authorization requests started so far
    restarts,       \* restarts so far
    phase           \* Main: "discovering", "listening" or "failed"

store == <<users, writes, failed>>
sess == <<pending, passportUser, pc, qstate, profile, reqUser, response, flow>>
vars == <<adminSub, sites, users, writes, failed, pending, passportUser, pc, qstate,
          profile, reqUser, response, flow, logins, restarts, phase>>

\* ------------------------------------------------- url.parse(...).host
Letters == {"a", "b", "c", "e", "f", "g", "h", "i", "j", "l", "o", "p",
            "r", "s", "t", "v", "x"}
ProtoChars == Letters \cup {".", "+", "-"}
HostEndingChars == {"/", "?", "#"}
SlashedProtocols ==
    { <<"h", "t", "t", "p", ":">>, <<"h", "t", "t", "p", "s", ":">>,
      <<"f", "t", "p", ":">>, <<"f", "i", "l", "e", ":">>,
      <<"g", "o", "p", "h", "e", "r", ":">> }
HostlessProtocols ==
    { <<"j", "a", "v", "a", "s", "c", "r", "i", "p", "t", ":">> }

\* index of the first character of s that is in C, Len(s) + 1 when there is none
FirstIn(s, C) ==
    LET hits == {i \in 1..Len(s) : s[i] \in C}
    IN  IF hits = {} THEN Len(s) + 1
        ELSE CHOOSE i \in hits : \A j \in hits : i <= j

\* index of the last "@" of s, 0 when there is none
LastAt(s) ==
    LET hits == {i \in 1..Len(s) : s[i] = "@"}
    IN  IF hits = {} THEN 0
        ELSE CHOOSE i \in hits : \A j \in hits : j <= i

\* the protocol of s with its colon (/^[a-z0-9.+-]+:/), <<>> when s has none
Proto(s) ==
    LET n == FirstIn(s, {c \in {s[i] : i \in 1..Len(s)} : c \notin ProtoChars})
    IN  IF n >= 2 /\ n <= Len(s) /\ s[n] = ":" THEN SubSeq(s, 1, n) ELSE <<>>

StartsWith(s, prefix) ==
    /\ Len(s) >= Len(prefix)
    /\ SubSeq(s, 1, Len(prefix)) = prefix

NullHost == [null |-> TRUE, chars |-> <<>>]
Host(h) == [null |-> FALSE, chars |-> h]

\* the host field of url.parse(s): null unless the string has a protocol
\* followed by "//", or a protocol that is not one of the slashed ones
ParseHost(s) ==
    LET proto == Proto(s)
        rest0 == SubSeq(s, Len(proto) + 1, Len(s))
        hostless == proto \in HostlessProtocols
        slashes == proto # <<>> /\ StartsWith(rest0, <<"/", "/">>)
        rest1 == IF slashes /\ ~hostless THEN SubSeq(rest0, 3, Len(rest0)) ELSE rest0
        hasHost == /\ ~hostless
                   /\ \/ slashes
                      \/ proto # <<>> /\ proto \notin SlashedProtocols
        hostEnd == FirstIn(rest1, HostEndingChars)
        authority == SubSeq(rest1, 1, hostEnd - 1)
        hostPart == SubSeq(authority, LastAt(authority) + 1, Len(authority))
    IN  IF hasHost THEN Host(hostPart) ELSE NullHost

\* String.prototype.startsWith('/')
StartsWithSlash(s) == StartsWith(s, Root)

\* ------------------------------------------------------------ the stores
\* getRepository(User).findOne({ where: { email }, select: ['id'] }):
\* only the id column is loaded, every other field of the result is undefined
FindUserByEmail(email) ==
    IF \E u \in users : u.email = email
    THEN LET u == CHOOSE u \in users : u.email = email
         IN  [NoUser EXCEPT !.id = u.id]
    ELSE NoUser

\* getRepository(User).findOneOrFail(userId)
FindUserById(id) ==
    IF \E u \in users : u.id = id
    THEN CHOOSE u \in users : u.id = id
    ELSE NoUser

\* getRepository(Site).findOne({ where: { domain: host }, relations: ['editors'] })
NoSite == [domain |-> <<>>, editors |-> {}, found |-> FALSE]
FindSiteByDomain(host) ==
    IF ~host.null /\ \E st \in sites : st.domain = host.chars
    THEN LET st == CHOOSE st \in sites : st.domain = host.chars
         IN  [domain |-> st.domain, editors |-> st.editors, found |-> TRUE]
    ELSE NoSite

\* the unique index on User.email: a row with this email and another id exists
EmailTaken(u) == \E o \in users : o.email = u.email /\ o.id # u.id

\* column default of User.isAdmin used by an insert that leaves it undefined
DefaultIsAdmin == False

\* the row written by save(u): an undefined property is left out of the
\* statement, so an update keeps the stored value and an insert takes the default
SavedRow(u) ==
    LET old == FindUserById(u.id)
    IN  IF u.isAdmin # Undefined THEN u
        ELSE [u EXCEPT !.isAdmin = IF old = NoUser THEN DefaultIsAdmin
                                   ELSE old.isAdmin]

\* ------------------------------------------------------------ responses
NoResponse == [kind |-> "none", to |-> <<>>, reason |-> None]
AuthRedirect == [kind |-> "authorize", to |-> <<>>, reason |-> None]
LogoutRedirect == [kind |-> "endSession", to |-> <<>>, reason |-> None]
FailureRedirect == [kind |-> "redirect", to |-> <<"/", "e", "r", "r", "o", "r">>,
                    reason |-> "ProviderError"]
ErrorResponse(why) == [kind |-> "error", to |-> <<>>, reason |-> why]
Redirect(t) == [kind |-> "redirect", to |-> t, reason |-> None]

\* a page served to the deserialized user `id`
Page(id) == [kind |-> "page", to |-> <<>>, reason |-> id]

\* a callback request of the session is being handled; "verifierHung" and
\* "handlerHung": the request never gets a response, the session stays usable
InFlight == {"exchange", "verify", "findUser", "findSite"}
Idle(s) == pc[s] \notin InFlight

\* passport.session(): every request of a session that carries a user runs
\* deserializeUser first and reaches its route only when the user is found
SessionLoads(s) ==
    passportUser[s] = None \/ FindUserById(passportUser[s]) # NoUser

\* ----------------------------------------------------------------- Init
SiteTable == {[domain |-> HostA, editors |-> {"u1"}]}
AdminArgs == {None} \cup Subs

Init ==
    /\ adminSub \in AdminArgs
    /\ sites = SiteTable
    /\ users = {}
    /\ writes = {}
    /\ failed = {}
    /\ pending = [s \in Sessions |-> NoPending]
    /\ passportUser = [s \in Sessions |-> None]
    /\ pc = [s \in Sessions |-> "Anonymous"]
    /\ qstate = [s \in Sessions |-> AbsentVal]
    /\ profile = [s \in Sessions |-> NoProfile]
    /\ reqUser = [s \in Sessions |-> NoUser]
    /\ response = [s \in Sessions |-> NoResponse]
    /\ flow = [s \in Sessions |-> 0]
    /\ logins = 0
    /\ restarts = 0
    /\ phase = "discovering"

\* ---------------------------------------------------------------- startup
\* a server that listens while the discovery is still running
Listening_BeforeDiscovery == phase \in {"discovering", "listening"}

\* Main, line 54: requests are accepted once app.listen has been called
Listening == phase = "listening"

\* Main awaits setupExpressAuth, which awaits Issuer.discover (timeout 10 s):
\* on success the routes are registered and app.listen is called, on a failure
\* or timeout the error is logged and app.listen is never reached
Discover(ok) ==
    /\ phase = "discovering"
    /\ phase' = IF ok THEN "listening" ELSE "failed"
    /\ UNCHANGED <<adminSub, sites, store, sess, logins, restarts>>

\* ------------------------------------------------------------ /login
\* the strategy finds no callback parameters, stores the authorization
\* request details (the state) in the session and redirects to the provider
StartAuthorization(s, v) ==
    /\ logins < MaxLogins
    /\ logins' = logins + 1
    /\ flow' = [flow EXCEPT ![s] = flow[s] + 1]
    /\ pending' = [pending EXCEPT ![s] = [set |-> TRUE, state |-> v]]
    /\ pc' = [pc EXCEPT ![s] = "AuthorizationRequested"]
    /\ response' = [response EXCEPT ![s] = AuthRedirect]
    /\ qstate' = [qstate EXCEPT ![s] = AbsentVal]
    /\ profile' = [profile EXCEPT ![s] = NoProfile]
    /\ reqUser' = [reqUser EXCEPT ![s] = NoUser]
    /\ UNCHANGED <<phase, adminSub, sites, store, passportUser, restarts>>

Login(s, v) ==
    /\ Listening
    /\ Idle(s)
    /\ SessionLoads(s)
    /\ StartAuthorization(s, v)

\* ------------------------------------------------------------ /logout
\* a /logout that redirects to the provider and leaves the session alone
Logout_RedirectOnly(s) ==
    /\ Listening
    /\ Idle(s)
    /\ SessionLoads(s)
    /\ pc' = [pc EXCEPT ![s] = "LoggedOut"]
    /\ response' = [response EXCEPT ![s] = LogoutRedirect]
    /\ UNCHANGED <<phase, adminSub, sites, store, passportUser, pending, qstate,
                   profile, reqUser, flow, logins, restarts>>

\* req.logout(), req.session.destroy() and the redirect to the end-session
\* endpoint, lines 179-183
Logout(s) ==
    /\ Listening
    /\ Idle(s)
    /\ SessionLoads(s)
    /\ passportUser' = [passportUser EXCEPT ![s] = None]
    /\ pending' = [pending EXCEPT ![s] = NoPending]
    /\ pc' = [pc EXCEPT ![s] = "LoggedOut"]
    /\ response' = [response EXCEPT ![s] = LogoutRedirect]
    /\ qstate' = [qstate EXCEPT ![s] = AbsentVal]
    /\ profile' = [profile EXCEPT ![s] = NoProfile]
    /\ reqUser' = [reqUser EXCEPT ![s] = NoUser]
    /\ UNCHANGED <<phase, adminSub, sites, store, flow, logins, restarts>>

\* ------------------------------------------------------- /oidc-callback
\* client.callback compares the state parameter of the response with the one
\* kept in the session: the query for GET, the form body for POST (bodyOk
\* tells whether the body carries the expected state); an array is never
\* identical to the stored value
StateMatches(s, m, q, bodyOk) ==
    /\ pending[s].state.kind # "array"
    /\ \/ m = "GET" /\ q = pending[s].state
       \/ m = "POST" /\ bodyOk

\* a strategy that handles a callback whatever the session holds
HasAuthorizationRequest_Unchecked(s) == TRUE

\* the strategy requires authorization request details in the session
HasAuthorizationRequest(s) == pending[s].set

\* the request in flight of session s ends with response r
Respond(s, at, r) ==
    /\ pc' = [pc EXCEPT ![s] = at]
    /\ response' = [response EXCEPT ![s] = r]
    /\ qstate' = [qstate EXCEPT ![s] = AbsentVal]
    /\ profile' = [profile EXCEPT ![s] = NoProfile]
    /\ reqUser' = [reqUser EXCEPT ![s] = NoUser]

\* the request in flight of session s fails with an error nobody handles (a
\* rejected promise of the async verifier or of the async route handler):
\* no response is ever sent
Hang(s, at) == Respond(s, at, NoResponse)

\* passport.authenticate('oidc', { failureRedirect: '/error' }), first part:
\* a request without parameters starts an authorization request, a request
\* without authorization request details in the session is an error, a state
\* mismatch is a failure; otherwise the code is sent to the token endpoint
Callback(s, m, q, empty, bodyOk) ==
    /\ Listening
    /\ Idle(s)
    /\ SessionLoads(s)
    /\ IF empty
       THEN StartAuthorization(s, RandomState)
       ELSE IF ~HasAuthorizationRequest(s)
       THEN /\ response' = [response EXCEPT ![s] = ErrorResponse("NoAuthorizationRequest")]
            /\ UNCHANGED <<phase, adminSub, sites, store, pending, passportUser, pc, qstate,
                           profile, reqUser, flow, logins, restarts>>
       ELSE /\ pending' = [pending EXCEPT ![s] = NoPending]
            /\ IF StateMatches(s, m, q, bodyOk)
               THEN /\ pc' = [pc EXCEPT ![s] = "exchange"]
                    /\ qstate' = [qstate EXCEPT ![s] = q]
                    /\ response' = [response EXCEPT ![s] = NoResponse]
                    /\ UNCHANGED <<profile, reqUser>>
               ELSE Respond(s, "Rejected", FailureRedirect)
            /\ UNCHANGED <<phase, adminSub, sites, store, passportUser, flow, logins, restarts>>

\* the token exchange and the userinfo request return: a failure of the
\* provider, an error, or the claims, which are handed to the verifier
ExchangeCode(s, outcome, p) ==
    /\ pc[s] = "exchange"
    /\ CASE outcome = "fail" -> Respond(s, "Rejected", FailureRedirect)
         [] outcome = "error" -> Respond(s, "Rejected", ErrorResponse("ProviderError"))
         [] outcome = "claims" ->
              /\ profile' = [profile EXCEPT ![s] = p]
              /\ pc' = [pc EXCEPT ![s] = "verify"]
              /\ UNCHANGED <<response, qstate, reqUser>>
    /\ UNCHANGED <<phase, adminSub, sites, store, pending, passportUser, flow, logins, restarts>>

\* a verifier that trusts every email address
EmailVerified_Skipped(p) == TRUE

\* verifier, line 70
EmailVerified(p) == p.email_verified

\* verifier, lines 69-81: the email_verified check, then the findOne is issued
Verifier(s) ==
    /\ pc[s] = "verify"
    /\ IF ~EmailVerified(profile[s])
       THEN Respond(s, "Rejected", ErrorResponse("EmailNotVerified"))
       ELSE /\ pc' = [pc EXCEPT ![s] = "findUser"]
            /\ UNCHANGED <<response, qstate, profile, reqUser>>
    /\ UNCHANGED <<phase, adminSub, sites, store, pending, passportUser, flow, logins, restarts>>

\* a verifier that lets a second identity take over the email address
Conflict_Ignored(existingUser, p) == FALSE

\* a verifier that rejects every email address the store already holds
Conflict_AnyHolder(existingUser, p) == existingUser # NoUser

\* verifier, line 83
Conflict(existingUser, p) == existingUser # NoUser /\ existingUser.id # p.sub

\* verifier, lines 96-98: existingUser?.isAdmin || (adminSub && sub === adminSub)
IsAdminValue(existingUser, sub) ==
    IF existingUser.isAdmin = True THEN True
    ELSE IF adminSub = None THEN Undefined
    ELSE IF sub = adminSub THEN True ELSE False

\* verifier, lines 91-99
NewUser(existingUser, p) ==
    [id |-> p.sub, name |-> p.name, email |-> p.email,
     profileImage |-> IF p.picture = None THEN "" ELSE p.picture,
     isAdmin |-> IsAdminValue(existingUser, p.sub)]

\* the route handler after passport.authenticate, lines 192-194, up to its await
NeedsSiteLookup(q) == q.kind = "string" /\ q.chars # <<>> /\ ~StartsWithSlash(q.chars)
HandlerThrows(q) == q.kind = "array"
\* a handler that always falls back to the root path
ImmediateTarget_AlwaysRoot(q) == Root

ImmediateTarget(q) == IF q.kind = "undefined" \/ q.chars = <<>> THEN Root ELSE q.chars

\* the findOne of the verifier returns; lines 83-103 and, after done(null, user),
\* req.logIn (serializeUser) and the first part of the route handler
VerifierFindOne(s, dbOk) ==
    /\ pc[s] = "findUser"
    /\ IF ~dbOk
       THEN /\ Hang(s, "verifierHung")
            /\ UNCHANGED <<store, passportUser>>
       ELSE LET existingUser == FindUserByEmail(profile[s].email)
                user == NewUser(existingUser, profile[s])
            IN  IF Conflict(existingUser, profile[s])
                THEN /\ Respond(s, "Rejected", ErrorResponse("EmailConflict"))
                     /\ UNCHANGED <<store, passportUser>>
                ELSE /\ writes' = writes \cup {[flow |-> flow[s], by |-> s, user |-> user]}
                     /\ passportUser' = [passportUser EXCEPT ![s] = user.id]
                     /\ UNCHANGED <<users, failed>>
                     /\ IF HandlerThrows(qstate[s])
                        THEN Hang(s, "handlerHung")
                        ELSE IF NeedsSiteLookup(qstate[s])
                        THEN /\ pc' = [pc EXCEPT ![s] = "findSite"]
                             /\ reqUser' = [reqUser EXCEPT ![s] = user]
                             /\ profile' = [profile EXCEPT ![s] = NoProfile]
                             /\ UNCHANGED <<response, qstate>>
                        ELSE Respond(s, "Authenticated",
                                     Redirect(ImmediateTarget(qstate[s])))
    /\ UNCHANGED <<phase, adminSub, sites, pending, flow, logins, restarts>>

\* a handler that trusts no Site
Allowed_Never(site, user) == FALSE

\* route handler, lines 199-203
Allowed(site, user) ==
    /\ user # NoUser
    /\ site.found
    /\ \E e \in site.editors : e = user.id

\* route handler, lines 194-206
RedirectUrl(q, user) ==
    IF Allowed(FindSiteByDomain(ParseHost(q.chars)), user) THEN q.chars ELSE Root

\* the findOne of the route handler returns; lines 199-207
SiteFindOne(s, dbOk) ==
    /\ pc[s] = "findSite"
    /\ IF ~dbOk
       THEN Hang(s, "handlerHung")
       ELSE Respond(s, "Authenticated", Redirect(RedirectUrl(qstate[s], reqUser[s])))
    /\ UNCHANGED <<phase, adminSub, sites, store, pending, passportUser, flow, logins, restarts>>

\* ------------------------------------------------------------ the store
\* a save that replaces whatever row holds the email address
SaveUser_ByEmail(w) ==
    /\ w \in writes
    /\ writes' = writes \ {w}
    /\ users' = {u \in users : u.id # w.user.id /\ u.email # w.user.email}
                    \cup {SavedRow(w.user)}
    /\ UNCHANGED <<phase, adminSub, sites, failed, sess, logins, restarts>>

\* a save issued by the verifier reaches the store: rejected by the unique
\* index on email (nobody awaits the promise), otherwise inserted or updated
SaveUser(w) ==
    /\ w \in writes
    /\ writes' = writes \ {w}
    /\ IF EmailTaken(w.user)
       THEN /\ failed' = failed \cup {w}
            /\ UNCHANGED users
       ELSE /\ users' = {u \in users : u.id # w.user.id} \cup {SavedRow(w.user)}
            /\ UNCHANGED failed
    /\ UNCHANGED <<phase, adminSub, sites, sess, logins, restarts>>

\* ------------------------------------------- any later request of a session
\* deserializeUser, lines 161-170
Request(s) ==
    /\ Listening
    /\ Idle(s)
    /\ passportUser[s] # None
    /\ LET user == FindUserById(passportUser[s])
       IN  IF user # NoUser
           THEN response' = [response EXCEPT ![s] = Page(user.id)]
           ELSE response' = [response EXCEPT ![s] = ErrorResponse("UserNotFound")]
    /\ UNCHANGED <<phase, adminSub, sites, store, pending, passportUser, pc, qstate,
                   profile, reqUser, flow, logins, restarts>>

\* ---------------------------------------------------------------- Main
\* the process is started again, possibly with another --adminSub: the
\* database is kept, the memory session store and the requests in flight are lost
Restart(a) ==
    /\ restarts < MaxRestarts
    /\ restarts' = restarts + 1
    /\ adminSub' = a
    /\ phase' = "discovering"
    /\ writes' = {}
    /\ pending' = [s \in Sessions |-> NoPending]
    /\ passportUser' = [s \in Sessions |-> None]
    /\ pc' = [s \in Sessions |-> "Anonymous"]
    /\ qstate' = [s \in Sessions |-> AbsentVal]
    /\ profile' = [s \in Sessions |-> NoProfile]
    /\ reqUser' = [s \in Sessions |-> NoUser]
    /\ response' = [s \in Sessions |-> NoResponse]
    /\ UNCHANGED <<sites, users, failed, flow, logins>>

\* ------------------------------------------------------- specifications
\* Spec: the concurrent logins of two sessions
RaceValues == {AbsentVal, StrVal(<<"h", "t", "t", "p", ":", "/", "/", "a", "/", "p">>)}
RaceProfiles == {p \in Profiles : p.picture = None}

Next ==
    \/ \E s \in Sessions, v \in RaceValues : Login(s, v)
    \/ \E s \in Sessions : Logout(s)
    \/ \E s \in Sessions, m \in {"GET", "POST"}, q \in RaceValues,
          empty \in BOOLEAN, bodyOk \in BOOLEAN : Callback(s, m, q, empty, bodyOk)
    \/ \E s \in Sessions, outcome \in {"fail", "error", "claims"}, p \in RaceProfiles :
          ExchangeCode(s, outcome, p)
    \/ \E s \in Sessions : Verifier(s)
    \/ \E s \in Sessions, dbOk \in BOOLEAN : VerifierFindOne(s, dbOk)
    \/ \E s \in Sessions, dbOk \in BOOLEAN : SiteFindOne(s, dbOk)
    \/ \E w \in writes : SaveUser(w)
    \/ \E s \in Sessions : Request(s)
    \/ \E ok \in BOOLEAN : Discover(ok)

Spec == Init /\ [][Next]_vars

\* SpecSingle: the logins of one session with every query value and every
\* profile, across restarts of the process
Single == {"s1"}

NextSingle ==
    \/ \E s \in Single, v \in QueryValues : Login(s, v)
    \/ \E s \in Single : Logout(s)
    \/ \E s \in Single, m \in {"GET", "POST"}, q \in QueryValues,
          empty \in BOOLEAN, bodyOk \in BOOLEAN : Callback(s, m, q, empty, bodyOk)
    \/ \E s \in Single, outcome \in {"fail", "error", "claims"}, p \in Profiles :
          ExchangeCode(s, outcome, p)
    \/ \E s \in Single : Verifier(s)
    \/ \E s \in Single, dbOk \in BOOLEAN : VerifierFindOne(s, dbOk)
    \/ \E s \in Single, dbOk \in BOOLEAN : SiteFindOne(s, dbOk)
    \/ \E w \in writes : SaveUser(w)
    \/ \E s \in Single : Request(s)
    \/ \E a \in AdminArgs : Restart(a)
    \/ \E ok \in BOOLEAN : Discover(ok)

SpecSingle == Init /\ [][NextSingle]_vars

\* ------------------------------------------------------------- claims
\* C1: a final redirect of the callback that names another origin, as an
\* absolute URL or in the scheme-relative form //host/path, goes there only
\* when a Site with the target's host as domain exists and the authenticated
\* user is one of its editors.
C1_CrossOriginNeedsEditor ==
    \A s \in Sessions :
        LET t == response[s].to
            schemeRelative == StartsWith(t, <<"/", "/">>)
            afterSlashes == SubSeq(t, 3, Len(t))
            host == IF schemeRelative
                    THEN Host(SubSeq(afterSlashes, 1,
                                     FirstIn(afterSlashes, HostEndingChars) - 1))
                    ELSE ParseHost(t)
        IN  (pc[s] = "Authenticated" /\ response[s].kind = "redirect" /\ ~host.null)
                => \E st \in sites : /\ st.domain = host.chars
                                     /\ passportUser[s] \in st.editors

\* C2: once the stored administrator flag of a user is true, no later login of
\* that user stores a flag that is not true, and no later login of that user
\* returns a user whose flag is not true.
C2_AdminNeverRevoked ==
    [][ /\ \A u \in users : u.isAdmin = True =>
              \A v \in users' : v.id = u.id => v.isAdmin = True
        /\ \A w \in writes' \ writes :
              (\E u \in users : u.id = w.user.id /\ u.isAdmin = True)
                  => w.user.isAdmin = True ]_vars

\* C3: at most one User holds an email address, and the login whose save the
\* unique index rejected is not authenticated: its session is not bound to
\* the user it tried to save.
C3_LosingLoginRejected ==
    /\ \A u, v \in users : u.email = v.email => u = v
    /\ \A w \in failed :
          flow[w.by] = w.flow =>
              /\ pc[w.by] \notin {"findSite", "Authenticated"}
              /\ passportUser[w.by] # w.user.id

\* C4: the verifier rejects claims whose email is not verified with
\* EmailNotVerified and writes nothing to the User store, whatever it holds.
C4_UnverifiedRejected ==
    [][ \A s \in Sessions :
          (pc[s] = "verify" /\ ~profile[s].email_verified /\ pc'[s] # "verify")
              => /\ pc'[s] = "Rejected"
                 /\ response'[s] = ErrorResponse("EmailNotVerified")
                 /\ users' = users
                 /\ writes' = writes ]_vars

\* a login with unverified claims was rejected while the store held a user
C4_Witness ==
    \E s \in Sessions :
        /\ pc[s] = "Rejected"
        /\ response[s] = ErrorResponse("EmailNotVerified")
        /\ users # {}

\* C5: when the lookup of the verifier finds the email held by a User with
\* another identifier, the verifier rejects with EmailConflict and writes
\* nothing to the User store.
C5_ConflictRejected ==
    [][ \A s \in Sessions :
          ( /\ pc[s] = "findUser"
            /\ \E u \in users : u.email = profile[s].email /\ u.id # profile[s].sub
            /\ pc'[s] \notin {"findUser", "verifierHung"} )
              => /\ pc'[s] = "Rejected"
                 /\ response'[s] = ErrorResponse("EmailConflict")
                 /\ users' = users
                 /\ writes' = writes ]_vars

\* a login was rejected because another identity holds the email
C5_Witness ==
    \E s \in Sessions :
        /\ pc[s] = "Rejected"
        /\ response[s] = ErrorResponse("EmailConflict")
        /\ \E u \in users : u.id # None

\* C6: a login that is rejected leaves nothing behind: the step that rejects
\* it changes neither the user bound to the session nor the User store, and a
\* login whose save was rejected by the unique index has no session bound to
\* its user.
C6_RejectionLeavesNothing ==
    /\ [][ \A s \in Sessions :
             (pc[s] # "Rejected" /\ pc'[s] = "Rejected")
                 => /\ passportUser'[s] = passportUser[s]
                    /\ users' = users
                    /\ writes' = writes ]_vars
    /\ [](\A w \in failed : flow[w.by] = w.flow => passportUser[w.by] # w.user.id)

\* C7: a request of a session that a login has bound to a user finds that
\* user: deserializeUser never fails for want of the User record.
C7_ResolveAfterLogin ==
    \A s \in Sessions :
        passportUser[s] # None => response[s] # ErrorResponse("UserNotFound")

C9_HandlerAlwaysRedirects ==
    \A s \in Sessions : pc[s] # "handlerHung"

\* C10: for a target that is empty, is no well-formed URL or is a
\* path-relative reference (no scheme, not //host), the final redirect is the
\* target unchanged, the root path when it is empty.
C10_RelativeUnchanged ==
    [][ \A s \in Sessions :
          ( /\ pc[s] \in {"findUser", "findSite"}
            /\ pc'[s] = "Authenticated"
            /\ qstate[s].kind # "array"
            /\ Proto(qstate[s].chars) = <<>>
            /\ ~StartsWith(qstate[s].chars, <<"/", "/">>) )
              => response'[s] = Redirect(IF qstate[s].chars = <<>> THEN Root
                                         ELSE qstate[s].chars) ]_vars

\* C10 as amended: for a target that is absent, empty or begins with a single
\* "/", the handler redirects at once, without a Site lookup, to the target
\* unchanged, the root path when it is absent or empty.
C10_RootedUnchanged ==
    [][ \A s \in Sessions :
          ( /\ pc[s] = "findUser"
            /\ pc'[s] \notin {"findUser", "verifierHung", "Rejected"}
            /\ restarts' = restarts
            /\ \/ qstate[s].kind = "undefined"
               \/ /\ qstate[s].kind = "string"
                  /\ \/ qstate[s].chars = <<>>
                     \/ /\ StartsWithSlash(qstate[s].chars)
                        /\ ~StartsWith(qstate[s].chars, <<"/", "/">>) )
              => /\ pc'[s] = "Authenticated"
                 /\ response'[s] = Redirect(IF qstate[s].chars = <<>> THEN Root
                                            ELSE qstate[s].chars) ]_vars

\* a login ended with a redirect to the path it asked for
C10_Witness ==
    \E s \in Sessions :
        /\ pc[s] = "Authenticated"
        /\ response[s] = Redirect(<<"/", "p">>)

\* C11: when the Site lookup of the handler finds a Site whose domain is the
\* host of the target and whose editors include the authenticated user, the
\* final redirect of the callback is the echoed state unchanged.
C11_EditorTargetUnchanged ==
    [][ \A s \in Sessions :
          ( /\ pc[s] = "findSite"
            /\ pc'[s] \notin {"findSite", "handlerHung"}
            /\ restarts' = restarts
            /\ \E st \in sites : /\ ~ParseHost(qstate[s].chars).null
                                 /\ st.domain = ParseHost(qstate[s].chars).chars
                                 /\ reqUser[s].id \in st.editors )
              => /\ pc'[s] = "Authenticated"
                 /\ response'[s] = Redirect(qstate[s].chars) ]_vars

\* an editor of the Site of host a was sent back to http://a/p
C11_Witness ==
    \E s \in Sessions :
        /\ pc[s] = "Authenticated"
        /\ passportUser[s] = "u1"
        /\ response[s] = Redirect(<<"h", "t", "t", "p", ":", "/", "/", "a", "/", "p">>)

C13_MissingUserIsAnonymous ==
    [][ \A s \in Sessions :
          ( /\ Idle(s)
            /\ passportUser[s] # None
            /\ FindUserById(passportUser[s]) = NoUser
            /\ response'[s] # response[s] )
              => response'[s].kind # "error" ]_vars

\* C14: once /logout has answered with the provider logout redirect, the
\* session carries neither a user nor a pending authorization request.
C14_LogoutDestroysSession ==
    \A s \in Sessions :
        response[s] = LogoutRedirect => passportUser[s] = None /\ ~pending[s].set

\* a session was logged out while the save of its last login was still under way
C14_Witness ==
    \E s \in Sessions :
        /\ response[s] = LogoutRedirect
        /\ pc[s] = "LoggedOut"
        /\ \E w \in writes : w.by = s /\ w.flow = flow[s]

\* C15: a login rejected for an unverified email or for an email conflict is
\* answered exactly as a provider failure is: with the redirect to the
\* generic failure page.
C15_RejectionsLookAlike ==
    \A s \in Sessions :
        response[s].reason \in {"EmailNotVerified", "EmailConflict"}
            => /\ response[s].kind = FailureRedirect.kind
               /\ response[s].to = FailureRedirect.to

\* C16: requests are handled only while the server listens, the server starts
\* to listen only when the discovery has succeeded, and after a failed
\* discovery it never listens.
C16_ListenAfterDiscovery ==
    [][ /\ (sess' # sess /\ restarts' = restarts) => phase = "listening"
        /\ (phase # "listening" /\ phase' = "listening") => phase = "discovering"
        /\ (phase = "failed" /\ restarts' = restarts) => phase' = "failed" ]_vars

\* the server listens and has answered a request
C16_Witness ==
    /\ phase = "listening"
    /\ \E s \in Sessions : response[s] # NoResponse

\* C17: the first login of a subject with verified claims whose email no other
\* identifier holds returns a User with the subject as identifier and with
\* the administrator flag true when the subject is the configured bootstrap
\* administrator and false otherwise, also when none is configured, and that
\* User is stored when the login reports success.
C17_FirstLoginFlag ==
    [][ \A s \in Sessions :
          ( /\ pc[s] = "findUser"
            /\ ~\E u \in users : u.id = profile[s].sub \/ u.email = profile[s].email
            /\ pc'[s] \notin {"findUser", "verifierHung"} )
              => LET flag == IF adminSub # None /\ profile[s].sub = adminSub
                             THEN True ELSE False
                 IN  /\ passportUser'[s] = profile[s].sub
                     /\ \E w \in writes' : /\ w.by = s
                                           /\ w.flow = flow[s]
                                           /\ w.user.id = profile[s].sub
                                           /\ w.user.isAdmin = flag
                     /\ \E u \in users' : /\ u.id = profile[s].sub
                                          /\ u.email = profile[s].email
                                          /\ u.isAdmin = flag ]_vars

\* C18: no session is bound to the user of a login whose save has not yet
\* reached the store.
C18_WriteBeforeSession ==
    \A w \in writes :
        ~(flow[w.by] = w.flow /\ passportUser[w.by] = w.user.id)

\* C19: a step changes or removes a User record only when it is the save of
\* that identifier reaching the store, creates a record only for the
\* identifier of such a save, and never changes the Site table.
C19_OnlyOwnRecordWritten ==
    [][ /\ \A u \in users :
             u \in users' \/ \E w \in writes : /\ w \notin writes'
                                               /\ w.user.id = u.id
                                               /\ \E v \in users' : v.id = u.id
        /\ \A v \in users' \ users :
             \E w \in writes : w \notin writes' /\ w.user.id = v.id
        /\ sites' = sites ]_vars

\* the records of two identities are stored side by side
C19_Witness ==
    /\ \E u, v \in users : u.id # v.id
    /\ \E s \in Sessions : pc[s] = "Authenticated"

\* C20: no callback request is left without a response.
C20_CallbackAnswered ==
    \A s \in Sessions : pc[s] \notin {"verifierHung", "handlerHung"}

====
